---- MODULE Spec2Model ----
(***************************************************************************)
(* Model of the matter-hub server (src/src/main.rs): the two axum handlers *)
(* handle_device_command and handle_device_commission, the registry        *)
(* functions get_cluster_name / get_command_name, the regex scan of the    *)
(* chip-tool output, and the devices table they share.                     *)
(*                                                                         *)
(* Every request is one task.  A task's position is pc[r]; the steps of a  *)
(* handler are cut at its .await points and at its blocking chip-tool      *)
(* invocations, which is where other requests can run in between.          *)
(* Strings are TLA+ strings, scanned character by character.  A handler    *)
(* starts with its extracted arguments; the routing and the extraction of  *)
(* the path and body by axum are outside the model.                        *)
(***************************************************************************)
EXTENDS Integers, Sequences, FiniteSets, TLC

(***************************************************************************)
(* Option and Result values of the Rust code.                              *)
(***************************************************************************)
None == <<>>
Some(v) == <<v>>
IsSome(o) == Len(o) = 1
Unwrap(o) == o[1]

(***************************************************************************)
(* Characters and decimal conversions.                                     *)
(***************************************************************************)
Digits == <<"0", "1", "2", "3", "4", "5", "6", "7", "8", "9">>

IsDigit(c) == \E d \in 1..10 : Digits[d] = c

DigitValue(c) == (CHOOSE d \in 1..10 : Digits[d] = c) - 1

IsSpace(c) == c \in {" ", "\t", "\n", "\r", "\f"}

\* u32::MAX is 4294967295 = U32MaxDiv10 * 10 + U32MaxLastDigit.
U32MaxDiv10 == 429496729

U32MaxLastDigit == 5

\* Character i of s, "" past either end.
Ch(s, i) == IF i >= 1 /\ i <= Len(s) THEN SubSeq(s, i, i) ELSE ""

\* Display of a non-negative integer: its decimal digits, most significant first.
RECURSIVE NatToString(_)
NatToString(n) ==
    IF n < 10 THEN Digits[n + 1]
    ELSE NatToString(n \div 10) \o Digits[(n % 10) + 1]

\* i32::to_string
I32ToString(n) == IF n < 0 THEN "-" \o NatToString(0 - n) ELSE NatToString(n)

\* Accumulates the decimal digits of s from position i on; <<>> on a
\* character that is not a digit or on a value that does not fit u32.
RECURSIVE ParseDigits(_, _, _)
ParseDigits(s, i, acc) ==
    IF i > Len(s) THEN Some(acc)
    ELSE IF ~IsDigit(Ch(s, i)) THEN None
    ELSE LET d == DigitValue(Ch(s, i))
         IN  IF acc > U32MaxDiv10 \/ (acc = U32MaxDiv10 /\ d > U32MaxLastDigit)
             THEN None
             ELSE ParseDigits(s, i + 1, acc * 10 + d)

\* u32::from_str_radix(s, 10) followed by .ok(): Some(value) or None.
\* An empty string, a lone sign, a non-digit or an overflow is an error; a
\* leading "+" is accepted.
from_str_radix(s) ==
    IF Len(s) = 0 THEN None
    ELSE IF Ch(s, 1) = "+"
         THEN (IF Len(s) = 1 THEN None ELSE ParseDigits(s, 2, 0))
         ELSE ParseDigits(s, 1, 0)

(***************************************************************************)
(* Capability registry.                                                    *)
(***************************************************************************)
\* get_cluster_name with 0x300 read as the decimal number 300.
\* get_cluster_name with a numeric fallback: an identifier the table does not
\* hold is named by its decimal numeral.
get_cluster_nameNumericFallback(cluster_id) ==
    CASE cluster_id = 6   -> Some("onoff")
      [] cluster_id = 8   -> Some("levelcontrol")
      [] cluster_id = 768 -> Some("colorcontrol")
      [] OTHER            -> Some(NatToString(cluster_id))

get_cluster_name(cluster_id) ==
    CASE cluster_id = 6   -> Some("onoff")
      [] cluster_id = 8   -> Some("levelcontrol")
      [] cluster_id = 768 -> Some("colorcontrol")
      [] OTHER            -> None

OnOffCommands == <<"off", "on", "toggle">>

LevelControlCommands ==
    <<"move-to-level", "move", "step", "stop", "move-to-level-with-on-off",
      "move-with-on-off", "step-with-on-off", "stop-with-on-off",
      "move-to-closest-frequency">>

ColorControlLow ==
    <<"move-to-hue", "move-hue", "step-hue", "move-to-saturation",
      "move-saturation", "step-saturation", "move-to-hue-and-saturation",
      "move-to-color", "move-color", "step-color",
      "move-to-color-temperature">>

\* get_command_name without the enhanced colour commands (0x40 and above).
get_command_nameNoEnhanced(cluster_id, command_id) ==
    CASE cluster_id = 6 /\ command_id \in 0..2 ->
            Some(OnOffCommands[command_id + 1])
      [] cluster_id = 8 /\ command_id \in 0..8 ->
            Some(LevelControlCommands[command_id + 1])
      [] cluster_id = 768 /\ command_id \in 0..10 ->
            Some(ColorControlLow[command_id + 1])
      [] OTHER -> None

get_command_name(cluster_id, command_id) ==
    CASE cluster_id = 6 /\ command_id \in 0..2 ->
            Some(OnOffCommands[command_id + 1])
      [] cluster_id = 8 /\ command_id \in 0..8 ->
            Some(LevelControlCommands[command_id + 1])
      [] cluster_id = 768 /\ command_id \in 0..10 ->
            Some(ColorControlLow[command_id + 1])
      [] cluster_id = 768 /\ command_id = 64 -> Some("enhanced-move-to-hue")
      [] cluster_id = 768 /\ command_id = 65 -> Some("enhanced-move-hue")
      [] cluster_id = 768 /\ command_id = 66 -> Some("enhanced-step-hue")
      [] cluster_id = 768 /\ command_id = 67 ->
            Some("enhanced-move-to-hue-and-saturation")
      [] cluster_id = 768 /\ command_id = 68 -> Some("color-loop-set")
      [] cluster_id = 768 /\ command_id = 71 -> Some("stop-move-set")
      [] cluster_id = 768 /\ command_id = 75 -> Some("move-color-temperature")
      [] cluster_id = 768 /\ command_id = 76 -> Some("step-color-temperature")
      [] OTHER -> None

(***************************************************************************)
(* Scan of the chip-tool output with the pattern                           *)
(*     \[TOO\].*?\[\d+\]:\s+(\d+)\s+\(                                       *)
(* Positions are 1-based; a match is [ok, cap, end] with end the position  *)
(* after its last character.                                               *)
(***************************************************************************)
NoMatch == [ok |-> FALSE, cap |-> "", end |-> 0]

\* First position >= i whose character is not a digit.
RECURSIVE DigitsEnd(_, _)
DigitsEnd(s, i) == IF IsDigit(Ch(s, i)) THEN DigitsEnd(s, i + 1) ELSE i

\* First position >= i whose character is not white space.
RECURSIVE SpacesEnd(_, _)
SpacesEnd(s, i) == IF IsSpace(Ch(s, i)) THEN SpacesEnd(s, i + 1) ELSE i

\* The part of the pattern after the lazy .*?, tried at position j:
\*     \[\d+\]:\s+(\d+)\s+\(
MatchTail(s, j) ==
    IF Ch(s, j) # "[" THEN NoMatch
    ELSE LET a == DigitsEnd(s, j + 1)
         IN  IF a = j + 1 \/ Ch(s, a) # "]" \/ Ch(s, a + 1) # ":" THEN NoMatch
             ELSE LET b == SpacesEnd(s, a + 2)
                      c == DigitsEnd(s, b)
                      d == SpacesEnd(s, c)
                  IN  IF b = a + 2 \/ c = b \/ d = c \/ Ch(s, d) # "("
                      THEN NoMatch
                      ELSE [ok |-> TRUE, cap |-> SubSeq(s, b, c - 1),
                            end |-> d + 1]

\* The lazy .*?: the first position j >= from where the tail matches.
RECURSIVE LazyTail(_, _)
LazyTail(s, from) ==
    IF from > Len(s) THEN NoMatch
    ELSE LET m == MatchTail(s, from)
         IN  IF m.ok THEN m ELSE LazyTail(s, from + 1)

\* The whole pattern tried at position i.
MatchAt(s, i) ==
    IF i + 4 <= Len(s) /\ SubSeq(s, i, i + 4) = "[TOO]"
    THEN LazyTail(s, i + 5)
    ELSE NoMatch

\* Leftmost match starting at or after position start.
RECURSIVE FindMatch(_, _)
FindMatch(s, start) ==
    IF start > Len(s) THEN NoMatch
    ELSE LET m == MatchAt(s, start)
         IN  IF m.ok THEN m ELSE FindMatch(s, start + 1)

\* re.captures_iter(line), keeping cap[1] of each match.
RECURSIVE CapturesFrom(_, _)
CapturesFrom(line, start) ==
    LET m == FindMatch(line, start)
    IN  IF m.ok THEN <<m.cap>> \o CapturesFrom(line, m.end) ELSE <<>>

\* captures_iter replaced by captures: only the first match of a line.
captures_iterFirstOnly(line) ==
    LET m == FindMatch(line, 1)
    IN  IF m.ok THEN <<m.cap>> ELSE <<>>

captures_iter(line) == CapturesFrom(line, 1)

\* Position of the first "\n" at or after i, Len(s) + 1 when there is none.
RECURSIVE LineEnd(_, _)
LineEnd(s, i) ==
    IF i > Len(s) \/ Ch(s, i) = "\n" THEN i ELSE LineEnd(s, i + 1)

\* str::lines: split at "\n", the terminator (and a "\r" before it) removed,
\* no final empty line after a trailing terminator.
RECURSIVE LinesFrom(_, _)
LinesFrom(s, i) ==
    IF i > Len(s) THEN <<>>
    ELSE LET e == LineEnd(s, i)
             stop == IF e <= Len(s) /\ e > i /\ Ch(s, e - 1) = "\r"
                     THEN e - 2 ELSE e - 1
         IN  <<SubSeq(s, i, stop)>> \o LinesFrom(s, e + 1)

lines(s) == LinesFrom(s, 1)

\* The two extraction loops (main.rs 403-412 and 441-450): every capture of
\* every line, in order.
RECURSIVE ExtractFromLines(_)
ExtractFromLines(ls) ==
    IF ls = <<>> THEN <<>>
    ELSE captures_iter(Head(ls)) \o ExtractFromLines(Tail(ls))

ExtractIds(stdout) == ExtractFromLines(lines(stdout))

(***************************************************************************)
(* Bounds and inputs.                                                      *)
(***************************************************************************)
\* Number of requests the server receives in one run.
MaxRequests == 2

Reqs == 1..MaxRequests

\* std::process::Command::output(): the process could not be started
\* (Err(e)), or it ran and left an exit code and its two captured streams.
SpawnError(e) ==
    [started |-> FALSE, code |-> 0, stdout |-> "", stderr |-> "", err |-> e]

Exited(code, out, errout) ==
    [started |-> TRUE, code |-> code, stdout |-> out, stderr |-> errout,
     err |-> ""]

NoSuchFile == "No such file or directory (os error 2)"

PairingResults ==
    { SpawnError(NoSuchFile),
      Exited(0, "", ""),
      Exited(1, "", "pairing timed out") }

ServerListResults ==
    { SpawnError(NoSuchFile),
      Exited(0, "", ""),
      Exited(1, "", "no response"),
      Exited(0, "[TOO]   [1]: 999 (", ""),
      Exited(0, "[TOO]   [1]: 6 (\n[TOO]   [2]: 768 (\n[TOO]   [3]: 999 (", "") }

AcceptedCommandResults ==
    { SpawnError(NoSuchFile),
      Exited(0, "", ""),
      Exited(0, "[TOO]   [1]: 0 (\n[TOO]   [2]: 1 (\n[TOO]   [3]: 2 (", ""),
      Exited(0, "[TOO]   [1]: 1 (\n[TOO]   [2]: 77 (\n[TOO]   [3]: 1 (", "") }

CommandResults ==
    { SpawnError(NoSuchFile),
      Exited(0, "", ""),
      Exited(1, "", "device unreachable") }

\* sqlx errors other than RowNotFound, by their display text.
DbErrors == {"pool timed out while waiting for an open connection"}

CommandPayloads ==
    { [id |-> 1, cluster |-> "onoff", command |-> "toggle", args |-> <<>>],
      [id |-> 1, cluster |-> "onoff", command |-> "on", args |-> <<"5", "x">>],
      [id |-> 1, cluster |-> "onoff", command |-> "move", args |-> <<>>],
      [id |-> 1, cluster |-> "levelcontrol", command |-> "move",
       args |-> <<"1">>],
      [id |-> 2, cluster |-> "onoff", command |-> "toggle", args |-> <<>>] }

CommissionPayloads ==
    { [pairing_code |-> 20202021, name |-> "lamp"],
      [pairing_code |-> 34970112, name |-> "plug"] }

\* The devices table is a SQLite file opened at start-up (main.rs 177-183);
\* it is empty or already holds rows.
SeedDevice ==
    [id |-> 1, node_id |-> 7, endpoint_id |-> 1, name |-> "Living Room Light",
     capabilities |-> [c \in {"onoff"} |-> <<"on", "off", "toggle">>]]

InitialTables == { <<>>, <<SeedDevice>> }

(***************************************************************************)
(* State.                                                                  *)
(***************************************************************************)
\* The devices table, rows in insertion order.
VARIABLE devices
\* Position of each request's task.
VARIABLE pc
\* The request's path and JSON body.
VARIABLE payload
\* The handler's local variables.
VARIABLE locals
\* None, or Some of the (status, body) returned.
VARIABLE response
\* chip-tool invocations each request has issued, in order.
VARIABLE invocations
\* Rows each request has added to the table.
VARIABLE inserted
\* Input and result of a direct call of the registry or of the output scan.
VARIABLE probe

vars == <<devices, pc, payload, locals, response, invocations, inserted, probe>>

NoPayload == [kind |-> "none"]

NoProbe == [kind |-> "none"]

NoLocals ==
    [row |-> "unset", device |-> SeedDevice, node_id |-> 0,
     supported_clusters |-> <<>>, next |-> 1, map |-> <<>>]

Init ==
    /\ devices \in InitialTables
    /\ pc = [r \in Reqs |-> "idle"]
    /\ payload = [r \in Reqs |-> NoPayload]
    /\ locals = [r \in Reqs |-> NoLocals]
    /\ response = [r \in Reqs |-> None]
    /\ invocations = [r \in Reqs |-> <<>>]
    /\ inserted = [r \in Reqs |-> <<>>]
    /\ probe = NoProbe

\* Requests arrive in the order of their numbers.
CanStart(r) == pc[r] = "idle" /\ \A q \in Reqs : q < r => pc[q] # "idle"

Reply(status, body) == Some([status |-> status, body |-> body])

CommandResponse(success, message) ==
    [success |-> success, message |-> message]

CommissionResponse(success, id, message) ==
    [success |-> success, id |-> id, message |-> message]

Invocation(args, result) == [args |-> args, result |-> result]

\* Output with a retry: an invocation that could not start is issued again.
OutputRetried(args, result) ==
    IF result.started THEN <<Invocation(args, result)>>
    ELSE <<Invocation(args, result), Invocation(args, result)>>

\* Command::new("chip-tool") with the arguments, then one call of output():
\* the invocations this adds to the request's log.
Output(args, result) == <<Invocation(args, result)>>

(***************************************************************************)
(* handle_device_command                                                   *)
(***************************************************************************)
\* FetchOne without the WHERE clause: the first row of the table.
FetchOneAnyRow(table, id) ==
    IF table = <<>> THEN [tag |-> "RowNotFound", device |-> SeedDevice]
    ELSE [tag |-> "Ok", device |-> table[1]]

\* SELECT * FROM devices WHERE id = ?, then fetch_one: the first row with the
\* id, or RowNotFound.
FetchOne(table, id) ==
    LET rows == SelectSeq(table, LAMBDA row : row.id = id)
    IN  IF rows = <<>> THEN [tag |-> "RowNotFound", device |-> SeedDevice]
        ELSE [tag |-> "Ok", device |-> rows[1]]

\* Validate comparing the command with the first entry of the list only.
ValidateFirstEntryOnly(capabilities, cluster, command) ==
    IF cluster \notin DOMAIN capabilities THEN "UnsupportedCluster"
    ELSE IF capabilities[cluster] = <<>> \/ capabilities[cluster][1] # command
         THEN "UnsupportedCommand"
         ELSE "Valid"

\* Validate without the check of the command.
ValidateClusterOnly(capabilities, cluster, command) ==
    IF cluster \notin DOMAIN capabilities THEN "UnsupportedCluster"
    ELSE "Valid"

\* Validation of (cluster, command) against the capability map.
Validate(capabilities, cluster, command) ==
    IF cluster \notin DOMAIN capabilities THEN "UnsupportedCluster"
    ELSE IF \A k \in 1..Len(capabilities[cluster]) :
                capabilities[cluster][k] # command
         THEN "UnsupportedCommand"
         ELSE "Valid"

\* CommandArgs with the device address ahead of the caller's arguments.
CommandArgsAddressFirst(cluster, command, args, device) ==
    <<cluster, command>>
        \o <<I32ToString(device.node_id), I32ToString(device.endpoint_id)>>
        \o args

\* Arguments given to chip-tool for a command.
CommandArgs(cluster, command, args, device) ==
    <<cluster, command>> \o args
        \o <<I32ToString(device.node_id), I32ToString(device.endpoint_id)>>

\* ClassifyResult with a non-zero exit reported as a server error.
ClassifyResultExitAs500(result, command, device) ==
    IF result.started /\ result.code = 0
    THEN Reply(200, CommandResponse(TRUE,
             "Command '" \o command \o "' executed successfully on device '"
                 \o device.name \o "'"))
    ELSE Reply(500, CommandResponse(FALSE,
             "Failed to execute command: " \o result.err))

\* The response for the result of the invocation.
ClassifyResult(result, command, device) ==
    IF result.started
    THEN IF result.code = 0
         THEN Reply(200, CommandResponse(TRUE,
                  "Command '" \o command \o "' executed successfully on device '"
                      \o device.name \o "'"))
         ELSE Reply(400, CommandResponse(FALSE,
                  "Command execution failed: " \o result.stderr))
    ELSE Reply(500, CommandResponse(FALSE,
             "Failed to execute command: " \o result.err))

\* The SELECT by id and the match on its result.
CommandLookup(r) ==
    /\ CanStart(r)
    /\ \E p \in CommandPayloads, answer \in {"rows"} \cup DbErrors :
         LET row == FetchOne(devices, p.id) IN
         /\ payload' = [payload EXCEPT ![r] =
                           [kind |-> "command", id |-> p.id,
                            cluster |-> p.cluster, command |-> p.command,
                            args |-> p.args]]
         /\ IF answer \in DbErrors
            THEN /\ response' = [response EXCEPT ![r] =
                        Reply(500, CommandResponse(FALSE,
                            "Database error: " \o answer))]
                 /\ pc' = [pc EXCEPT ![r] = "done"]
                 /\ locals' = [locals EXCEPT ![r].row = "Err"]
            ELSE IF row.tag = "RowNotFound"
            THEN /\ response' = [response EXCEPT ![r] =
                        Reply(404, CommandResponse(FALSE,
                            "Device with id '" \o I32ToString(p.id)
                                \o "' not found"))]
                 /\ pc' = [pc EXCEPT ![r] = "done"]
                 /\ locals' = [locals EXCEPT ![r].row = "RowNotFound"]
            ELSE /\ locals' = [locals EXCEPT ![r].row = "Ok",
                                             ![r].device = row.device]
                 /\ pc' = [pc EXCEPT ![r] = "dispatch"]
                 /\ UNCHANGED response
    /\ UNCHANGED <<devices, invocations, inserted, probe>>

\* The two capability checks, then the chip-tool invocation and its result.
CommandDispatch(r) ==
    /\ pc[r] = "dispatch"
    /\ LET device == locals[r].device
           cluster == payload[r].cluster
           command == payload[r].command
           verdict == Validate(device.capabilities, cluster, command)
       IN  IF verdict = "UnsupportedCluster"
           THEN /\ response' = [response EXCEPT ![r] =
                       Reply(400, CommandResponse(FALSE,
                           "Cluster '" \o cluster
                               \o "' not supported by device '"
                               \o device.name \o "'"))]
                /\ UNCHANGED invocations
           ELSE IF verdict = "UnsupportedCommand"
           THEN /\ response' = [response EXCEPT ![r] =
                       Reply(400, CommandResponse(FALSE,
                           "Command '" \o command
                               \o "' not supported by device '" \o device.name
                               \o "' in cluster '" \o cluster \o "'"))]
                /\ UNCHANGED invocations
           ELSE \E result \in CommandResults :
                /\ invocations' = [invocations EXCEPT ![r] =
                       @ \o Output(CommandArgs(cluster, command,
                                       payload[r].args, device), result)]
                /\ response' = [response EXCEPT ![r] =
                       ClassifyResult(result, command, device)]
    /\ pc' = [pc EXCEPT ![r] = "done"]
    /\ UNCHANGED <<devices, payload, locals, inserted, probe>>

(***************************************************************************)
(* handle_device_commission                                                *)
(***************************************************************************)
\* SELECT COALESCE(MAX(id), 0) + 1 FROM devices
RECURSIVE MaxId(_)
MaxId(table) ==
    IF table = <<>> THEN 0
    ELSE LET m == MaxId(Tail(table))
         IN  IF Head(table).id > m THEN Head(table).id ELSE m

NextId(table) == MaxId(table) + 1

\* SupportedClusters with a placeholder: a cluster ID the registry does not
\* know is kept as "unknown".
RECURSIVE SupportedClustersUnknownPlaceholder(_)
SupportedClustersUnknownPlaceholder(cluster_ids) ==
    IF cluster_ids = <<>> THEN <<>>
    ELSE LET cluster_id == from_str_radix(Head(cluster_ids))
             name == IF IsSome(cluster_id)
                     THEN get_cluster_name(Unwrap(cluster_id))
                     ELSE None
         IN  (IF IsSome(name) THEN name ELSE Some("unknown"))
             \o SupportedClustersUnknownPlaceholder(Tail(cluster_ids))

\* The names of the parsed cluster IDs the registry knows (filter_map).
RECURSIVE SupportedClusters(_)
SupportedClusters(cluster_ids) ==
    IF cluster_ids = <<>> THEN <<>>
    ELSE LET cluster_id == from_str_radix(Head(cluster_ids))
         IN  (IF IsSome(cluster_id) THEN get_cluster_name(Unwrap(cluster_id))
              ELSE None)
             \o SupportedClusters(Tail(cluster_ids))

\* The names of the parsed command IDs the registry knows for the cluster.
RECURSIVE SupportedCommands(_, _)
SupportedCommands(cluster_id, ids) ==
    IF ids = <<>> THEN <<>>
    ELSE LET cmd_id == from_str_radix(Head(ids))
         IN  (IF IsSome(cmd_id) THEN get_command_name(cluster_id, Unwrap(cmd_id))
              ELSE None)
             \o SupportedCommands(cluster_id, Tail(ids))

\* HashMap::insert
MapInsert(map, key, value) ==
    [k \in DOMAIN map \cup {key} |-> IF k = key THEN value ELSE map[k]]

PairingArgs(node_id, pairing_code) ==
    <<"pairing", "onnetwork", I32ToString(node_id), I32ToString(pairing_code)>>

\* ServerListArgs with the node identifier fixed to 1.
ServerListArgsFixedNode(node_id) ==
    <<"descriptor", "read", "server-list", "1", "1">>

ServerListArgs(node_id) ==
    <<"descriptor", "read", "server-list", I32ToString(node_id), "1">>

AcceptedCommandListArgs(cluster_name, node_id) ==
    <<cluster_name, "read", "accepted-command-list", I32ToString(node_id), "1">>

\* PairingOutcome without the check of the exit status.
PairingOutcomeNoStatusCheck(result) ==
    IF ~result.started THEN "NotStarted" ELSE "Paired"

\* The two checks on the result of the pairing invocation.
PairingOutcome(result) ==
    IF ~result.started THEN "NotStarted"
    ELSE IF result.code # 0 THEN "Failed"
    ELSE "Paired"

\* A panic unwinds the task: the connection is closed without a response.
Panic(r) ==
    /\ pc' = [pc EXCEPT ![r] = "panicked"]
    /\ UNCHANGED response

Fail500(r, message) ==
    /\ pc' = [pc EXCEPT ![r] = "done"]
    /\ response' = [response EXCEPT ![r] =
           Reply(500, CommissionResponse(FALSE, None, message))]

\* The allocation query and the match on its result.
CommissionAllocate(r) ==
    /\ CanStart(r)
    /\ \E p \in CommissionPayloads, answer \in {"value"} \cup DbErrors :
         /\ payload' = [payload EXCEPT ![r] =
                           [kind |-> "commission",
                            pairing_code |-> p.pairing_code, name |-> p.name]]
         /\ IF answer \in DbErrors
            THEN /\ Fail500(r, "Database error: " \o answer)
                 /\ UNCHANGED locals
            ELSE /\ locals' = [locals EXCEPT ![r].node_id = NextId(devices)]
                 /\ pc' = [pc EXCEPT ![r] = "pairing"]
                 /\ UNCHANGED response
    /\ UNCHANGED <<devices, invocations, inserted, probe>>

\* chip-tool pairing onnetwork and the two checks of its result.
CommissionPair(r) ==
    /\ pc[r] = "pairing"
    /\ \E result \in PairingResults :
         /\ invocations' = [invocations EXCEPT ![r] =
                @ \o Output(PairingArgs(locals[r].node_id,
                                        payload[r].pairing_code), result)]
         /\ IF PairingOutcome(result) = "NotStarted"
            THEN Fail500(r, "Failed to execute commissioning command: "
                                \o result.err)
            ELSE IF PairingOutcome(result) = "Failed"
            THEN Fail500(r, "Commissioning command failed: " \o result.stderr)
            ELSE /\ pc' = [pc EXCEPT ![r] = "server_list"]
                 /\ UNCHANGED response
    /\ UNCHANGED <<devices, payload, locals, inserted, probe>>

\* chip-tool descriptor read server-list, the scan of its output and the
\* registry lookup of the cluster IDs.  The exit code is not looked at.
CommissionServerList(r) ==
    /\ pc[r] = "server_list"
    /\ \E result \in ServerListResults :
         /\ invocations' = [invocations EXCEPT ![r] =
                @ \o Output(ServerListArgs(locals[r].node_id), result)]
         /\ IF ~result.started
            THEN /\ Panic(r)
                 /\ UNCHANGED locals
            ELSE LET cluster_ids == ExtractIds(result.stdout)
                     supported_clusters == SupportedClusters(cluster_ids)
                 IN  /\ locals' = [locals EXCEPT
                            ![r].supported_clusters = supported_clusters,
                            ![r].next = 1,
                            ![r].map = <<>>]
                     /\ pc' = [pc EXCEPT ![r] =
                            IF supported_clusters = <<>> THEN "insert"
                            ELSE "commands"]
                     /\ UNCHANGED response
    /\ UNCHANGED <<devices, payload, inserted, probe>>

\* One iteration of the loop over supported_clusters.
CommissionCommands(r) ==
    /\ pc[r] = "commands"
    /\ LET cluster == locals[r].supported_clusters[locals[r].next]
           parsed == from_str_radix(cluster)
       IN  IF ~IsSome(parsed)
           THEN /\ Panic(r)
                /\ UNCHANGED <<locals, invocations>>
           ELSE LET cluster_id == Unwrap(parsed)
                    looked_up == get_cluster_name(cluster_id)
                    cluster_name == IF IsSome(looked_up) THEN Unwrap(looked_up)
                                    ELSE "unknown"
                    last == locals[r].next = Len(locals[r].supported_clusters)
                IN  IF cluster_name = "unknown"
                    THEN /\ locals' = [locals EXCEPT ![r].next = @ + 1]
                         /\ pc' = [pc EXCEPT ![r] =
                                IF last THEN "insert" ELSE "commands"]
                         /\ UNCHANGED <<response, invocations>>
                    ELSE \E result \in AcceptedCommandResults :
                         /\ invocations' = [invocations EXCEPT ![r] =
                                @ \o Output(
                                    AcceptedCommandListArgs(cluster_name,
                                        locals[r].node_id), result)]
                         /\ IF ~result.started
                            THEN /\ Panic(r)
                                 /\ UNCHANGED locals
                            ELSE /\ locals' = [locals EXCEPT
                                        ![r].map = MapInsert(@, cluster_name,
                                            SupportedCommands(cluster_id,
                                                ExtractIds(result.stdout))),
                                        ![r].next = @ + 1]
                                 /\ pc' = [pc EXCEPT ![r] =
                                        IF last THEN "insert" ELSE "commands"]
                                 /\ UNCHANGED response
    /\ UNCHANGED <<devices, payload, inserted, probe>>

\* INSERT OR REPLACE on the node identifier: a record with the same node
\* identifier is replaced by the new row.
InsertRowReplacing(table, row) ==
    SelectSeq(table, LAMBDA old : old.node_id # row.node_id) \o <<row>>

\* INSERT INTO devices: the row is added to the table.
InsertRow(table, row) == Append(table, row)

\* The INSERT and the match on its result.  The statement gives no id: the
\* table assigns the next one (INTEGER PRIMARY KEY of SQLite).  The
\* capabilities column holds the serde_json text of the map, which
\* handle_device_command decodes back into the same map.
CommissionInsert(r) ==
    /\ pc[r] = "insert"
    /\ \E answer \in {"done"} \cup DbErrors :
         IF answer \in DbErrors
         THEN /\ Fail500(r, "Failed to insert device into database: "
                               \o answer)
              /\ UNCHANGED <<devices, inserted>>
         ELSE LET row == [id |-> NextId(devices),
                          node_id |-> locals[r].node_id,
                          endpoint_id |-> 1,
                          name |-> payload[r].name,
                          capabilities |-> locals[r].map]
              IN  /\ devices' = InsertRow(devices, row)
                  /\ inserted' = [inserted EXCEPT ![r] = Append(@, row)]
                  /\ pc' = [pc EXCEPT ![r] = "done"]
                  /\ response' = [response EXCEPT ![r] =
                         Reply(200, CommissionResponse(TRUE,
                             Some(locals[r].node_id),
                             "Device commissioned successfully"))]
    /\ UNCHANGED <<payload, locals, invocations, probe>>

(***************************************************************************)
(* The server: any request takes its next step.                            *)
(***************************************************************************)
Next ==
    \E r \in Reqs :
        \/ CommandLookup(r)
        \/ CommandDispatch(r)
        \/ CommissionAllocate(r)
        \/ CommissionPair(r)
        \/ CommissionServerList(r)
        \/ CommissionCommands(r)
        \/ CommissionInsert(r)

Spec == Init /\ [][Next]_vars

(***************************************************************************)
(* Direct calls of the registry functions, on every pair of identifiers up *)
(* to the bounds.                                                          *)
(***************************************************************************)
MaxClusterId == 770

MaxCommandId == 80

\* No request has arrived.
ServerIdle ==
    /\ devices = <<>>
    /\ pc = [r \in Reqs |-> "idle"]
    /\ payload = [r \in Reqs |-> NoPayload]
    /\ locals = [r \in Reqs |-> NoLocals]
    /\ response = [r \in Reqs |-> None]
    /\ invocations = [r \in Reqs |-> <<>>]
    /\ inserted = [r \in Reqs |-> <<>>]

server == <<devices, pc, payload, locals, response, invocations, inserted>>

InitRegistry ==
    /\ ServerIdle
    /\ probe \in { [kind |-> "registry", cluster_id |-> c, command_id |-> m,
                    called |-> "none", result |-> None] :
                     c \in 0..MaxClusterId, m \in 0..MaxCommandId }

CallClusterName ==
    /\ probe.kind = "registry"
    /\ probe.called = "none"
    /\ probe' = [probe EXCEPT !.called = "get_cluster_name",
                              !.result = get_cluster_name(probe.cluster_id)]
    /\ UNCHANGED server

CallCommandName ==
    /\ probe.kind = "registry"
    /\ probe.called = "none"
    /\ probe' = [probe EXCEPT !.called = "get_command_name",
                              !.result = get_command_name(probe.cluster_id,
                                                          probe.command_id)]
    /\ UNCHANGED server

NextRegistry == CallClusterName \/ CallCommandName

SpecRegistry == InitRegistry /\ [][NextRegistry]_vars

(***************************************************************************)
(* Direct calls of the output scan, on every text made of up to            *)
(* MaxSegments pieces of chip-tool output.                                 *)
(***************************************************************************)
MaxSegments == 3

\* Pieces of output.  "occ" is a whole occurrence of the pattern, "tag" a
\* tag without the rest, "tail" the index, number and parenthesis without a
\* tag, "noise" other text, "nl" the line terminator.
Segments ==
    { [kind |-> "occ", text |-> "[TOO]   [1]: 6 (", num |-> "6"],
      [kind |-> "occ", text |-> "[TOO] [12]: 768 (ColorControl)",
       num |-> "768"],
      [kind |-> "occ", text |-> "[TOO] [0]: 4294967296 (", num |-> "4294967296"],
      [kind |-> "tag", text |-> "[TOO] x ", num |-> ""],
      [kind |-> "tail", text |-> "[3]: 9 (", num |-> "9"],
      [kind |-> "noise", text |-> "CHIP: 12 (", num |-> ""],
      [kind |-> "nl", text |-> "\n", num |-> ""] }

SegmentLists == UNION { [1..n -> Segments] : n \in 0..MaxSegments }

RECURSIVE ConcatText(_)
ConcatText(segs) ==
    IF segs = <<>> THEN "" ELSE Head(segs).text \o ConcatText(Tail(segs))

InitScan ==
    /\ ServerIdle
    /\ probe \in { [kind |-> "scan", segments |-> segs,
                    stdout |-> ConcatText(segs), called |-> FALSE,
                    result |-> <<>>] : segs \in SegmentLists }

CallExtractIds ==
    /\ probe.kind = "scan"
    /\ ~probe.called
    /\ probe' = [probe EXCEPT !.called = TRUE,
                              !.result = ExtractIds(probe.stdout)]
    /\ UNCHANGED server

NextScan == CallExtractIds

SpecScan == InitScan /\ [][NextScan]_vars

(***************************************************************************)
(* Vocabulary of the properties.                                           *)
(***************************************************************************)
IsCommand(r) == payload[r].kind = "command"

IsCommission(r) == payload[r].kind = "commission"

Terminated(r) == pc[r] \in {"done", "panicked"}

Responded(r) == response[r] # None

Status(r) == response[r][1].status

Body(r) == response[r][1].body

StartsWith(s, prefix) ==
    Len(s) >= Len(prefix) /\ SubSeq(s, 1, Len(prefix)) = prefix

EndsWith(s, suffix) ==
    Len(s) >= Len(suffix)
        /\ SubSeq(s, Len(s) - Len(suffix) + 1, Len(s)) = suffix

InList(list, x) == \E k \in 1..Len(list) : list[k] = x

HasRow(id) == \E k \in 1..Len(devices) : devices[k].id = id

StoredRow(id) == devices[CHOOSE k \in 1..Len(devices) : devices[k].id = id]

\* The request got a device from the table and its validation passed.
Validated(r) ==
    /\ IsCommand(r)
    /\ locals[r].row = "Ok"
    /\ payload[r].cluster \in DOMAIN locals[r].device.capabilities
    /\ InList(locals[r].device.capabilities[payload[r].cluster],
              payload[r].command)

AllStarted(r) ==
    \A k \in 1..Len(invocations[r]) : invocations[r][k].result.started

\* The request ran pairing and the server-list read, every invocation it
\* made started, pairing exited zero, and it reported no failure.
DiscoveryRan(r) ==
    /\ IsCommission(r)
    /\ Terminated(r)
    /\ Len(invocations[r]) >= 2
    /\ AllStarted(r)
    /\ invocations[r][1].result.code = 0
    /\ ~(Responded(r) /\ Status(r) = 500)

ParsedClusterIds(r) == ExtractIds(invocations[r][2].result.stdout)

ClusterIdOf == [onoff |-> 6, levelcontrol |-> 8, colorcontrol |-> 768]

\* Names of the recognized cluster IDs among the parsed ones.
ExpectedClusterKeys(ids) ==
    { name \in DOMAIN ClusterIdOf :
        \E k \in 1..Len(ids) : from_str_radix(ids[k]) = Some(ClusterIdOf[name]) }

(***************************************************************************)
(* Properties.                                                             *)
(***************************************************************************)
\* C1: the device directory never contains two records with the same node
\* identifier, whatever the interleaving of commission requests.
C1_UniqueNodeIds ==
    \A i, j \in 1..Len(devices) :
        i # j => devices[i].node_id # devices[j].node_id

\* C2: a commission request whose pairing succeeded and whose discovery ran
\* persists a record whose capability map has exactly the names of the
\* recognized cluster IDs parsed from the server-list output as its keys.
C2_CapabilityKeys ==
    \A r \in Reqs :
        DiscoveryRan(r) =>
            /\ Len(inserted[r]) = 1
            /\ DOMAIN inserted[r][1].capabilities
                   = ExpectedClusterKeys(ParsedClusterIds(r))

\* C3: for every recognized cluster of a commissioned device, the stored
\* command list is the command IDs parsed from that cluster's
\* accepted-command-list output mapped through the registry, unrecognized IDs
\* removed, order and duplicates kept.
C3_CommandLists ==
    \A r \in Reqs :
        DiscoveryRan(r) =>
            \A name \in ExpectedClusterKeys(ParsedClusterIds(r)) :
                /\ Len(inserted[r]) = 1
                /\ name \in DOMAIN inserted[r][1].capabilities
                /\ \E k \in 3..Len(invocations[r]) :
                     /\ invocations[r][k].args[1] = name
                     /\ inserted[r][1].capabilities[name]
                            = SupportedCommands(ClusterIdOf[name],
                                  ExtractIds(invocations[r][k].result.stdout))

IsUnsupportedCluster(r) ==
    /\ Responded(r)
    /\ Status(r) = 400
    /\ ~Body(r).success
    /\ StartsWith(Body(r).message,
                  "Cluster '" \o payload[r].cluster \o "' not supported")

IsUnsupportedCommand(r) ==
    /\ Responded(r)
    /\ Status(r) = 400
    /\ ~Body(r).success
    /\ StartsWith(Body(r).message,
                  "Command '" \o payload[r].command \o "' not supported")

\* C4: a command request on an existing device whose cluster is not a key of
\* the device's capability map ends as UnsupportedCluster, one whose cluster
\* is a key but whose command is not in that cluster's list ends as
\* UnsupportedCommand, and neither issues an external-tool invocation.
C4_ValidationRefusals ==
    \A r \in Reqs :
        (IsCommand(r) /\ locals[r].row = "Ok") =>
            LET caps == StoredRow(payload[r].id).capabilities
                cluster == payload[r].cluster
            IN  /\ HasRow(payload[r].id)
                /\ cluster \notin DOMAIN caps =>
                       /\ invocations[r] = <<>>
                       /\ pc[r] = "done" => IsUnsupportedCluster(r)
                /\ (cluster \in DOMAIN caps
                        /\ ~InList(caps[cluster], payload[r].command)) =>
                       /\ invocations[r] = <<>>
                       /\ pc[r] = "done" => IsUnsupportedCommand(r)

C4_Witness ==
    \E r, q \in Reqs :
        /\ IsCommand(r) /\ locals[r].row = "Ok" /\ pc[r] = "done"
        /\ payload[r].cluster \notin DOMAIN StoredRow(payload[r].id).capabilities
        /\ IsUnsupportedCluster(r)
        /\ IsCommand(q) /\ locals[q].row = "Ok" /\ pc[q] = "done"
        /\ payload[q].cluster \in DOMAIN StoredRow(payload[q].id).capabilities
        /\ IsUnsupportedCommand(q)

\* C5: the invocation of a validated command request has the arguments
\* cluster, command, the caller's arguments in the order given, the stored
\* device's node identifier, its endpoint identifier; ("onoff","toggle",[])
\* on device (node_id=7, endpoint_id=1) gives ["onoff","toggle","7","1"].
C5_ArgumentOrder ==
    \A r \in Reqs :
        (Validated(r) /\ pc[r] = "done") =>
            LET args == invocations[r][1].args
                given == payload[r].args
                device == StoredRow(payload[r].id)
                n == Len(given)
            IN  /\ Len(invocations[r]) >= 1
                /\ Len(args) = n + 4
                /\ args[1] = payload[r].cluster
                /\ args[2] = payload[r].command
                /\ \A k \in 1..n : args[2 + k] = given[k]
                /\ from_str_radix(args[n + 3]) = Some(device.node_id)
                /\ from_str_radix(args[n + 4]) = Some(device.endpoint_id)
                /\ (given = <<>> /\ payload[r].cluster = "onoff"
                        /\ payload[r].command = "toggle"
                        /\ device.node_id = 7 /\ device.endpoint_id = 1) =>
                       args = <<"onoff", "toggle", "7", "1">>

C5_Witness ==
    \E r, q \in Reqs :
        /\ Validated(r) /\ pc[r] = "done"
        /\ invocations[r][1].args = <<"onoff", "toggle", "7", "1">>
        /\ Validated(q) /\ pc[q] = "done"
        /\ invocations[q][1].args = <<"onoff", "on", "5", "x", "7", "1">>

\* C6: after validation passes the outcome follows from the one invocation:
\* not started gives ExecutionError (500), a non-zero exit gives CommandFailed
\* (400) carrying the captured diagnostic text, a zero exit gives Success
\* (200, success=true); nothing else.
C6_OutcomeClassification ==
    \A r \in Reqs :
        (Validated(r) /\ pc[r] = "done") =>
            /\ Len(invocations[r]) >= 1
            /\ Responded(r)
            /\ LET result == invocations[r][1].result
               IN  /\ ~result.started =>
                          Status(r) = 500 /\ ~Body(r).success
                   /\ (result.started /\ result.code # 0) =>
                          /\ Status(r) = 400 /\ ~Body(r).success
                          /\ EndsWith(Body(r).message, result.stderr)
                   /\ (result.started /\ result.code = 0) =>
                          Status(r) = 200 /\ Body(r).success

C6_Witness ==
    \E r \in Reqs :
        /\ Validated(r) /\ pc[r] = "done"
        /\ invocations[r][1].result.started
        /\ invocations[r][1].result.code = 1
        /\ Status(r) = 400
        /\ EndsWith(Body(r).message, "device unreachable")

PairingFailed(r) ==
    /\ IsCommission(r)
    /\ Len(invocations[r]) >= 1
    /\ \/ ~invocations[r][1].result.started
       \/ invocations[r][1].result.code # 0

\* C7: a commission request whose pairing invocation cannot be started or
\* exits non-zero ends with a failure response, issues no discovery
\* invocation and persists no record: every row of the table was there at
\* start-up or was inserted by another request.
C7_PairingFailureIsTerminal ==
    \A r \in Reqs :
        PairingFailed(r) =>
            /\ pc[r] = "done"
            /\ Responded(r) /\ ~Body(r).success /\ Status(r) = 500
            /\ Len(invocations[r]) = 1
            /\ inserted[r] = <<>>
            /\ \A k \in 1..Len(devices) :
                 \/ \E table \in InitialTables : InList(table, devices[k])
                 \/ \E q \in Reqs : q # r /\ inserted[q] = <<devices[k]>>

C7_Witness ==
    \E r \in Reqs :
        /\ PairingFailed(r)
        /\ invocations[r][1].result.started
        /\ pc[r] = "done"
        /\ Status(r) = 500

\* C8: a command request issues at most one external-tool invocation, and
\* exactly one when validation passes; a failed invocation is not repeated.
C8_SingleInvocation ==
    \A r \in Reqs :
        IsCommand(r) =>
            /\ Len(invocations[r]) <= 1
            /\ (Validated(r) /\ pc[r] = "done") => Len(invocations[r]) = 1
            /\ (~Validated(r)) => invocations[r] = <<>>

C8_Witness ==
    \E r \in Reqs :
        /\ Validated(r) /\ pc[r] = "done"
        /\ Len(invocations[r]) = 1
        /\ ~invocations[r][1].result.started

\* C9: a commission request that does not succeed ends with a response that
\* has success=false, no id and status 500, whichever step failed.
C9_FailureResponse ==
    \A r \in Reqs :
        (IsCommission(r) /\ Terminated(r)
             /\ ~(Responded(r) /\ Body(r).success)) =>
            /\ Responded(r)
            /\ Status(r) = 500
            /\ ~Body(r).success
            /\ Body(r).id = None

\* C10: a command request for an identifier the directory holds no record of
\* ends as NotFound (404, success=false) without an external-tool invocation.
C10_NotFound ==
    \A r \in Reqs :
        IsCommand(r) =>
            /\ (~HasRow(payload[r].id) /\ locals[r].row # "Err") =>
                   locals[r].row = "RowNotFound"
            /\ locals[r].row = "RowNotFound" =>
                   /\ pc[r] = "done"
                   /\ Responded(r) /\ Status(r) = 404 /\ ~Body(r).success
                   /\ invocations[r] = <<>>

C10_Witness ==
    \E r \in Reqs :
        /\ IsCommand(r)
        /\ ~HasRow(payload[r].id)
        /\ locals[r].row = "RowNotFound"
        /\ Status(r) = 404

\* The fixed table of the registry: cluster identifiers and names.
ClusterTable ==
    { <<6, "onoff">>, <<8, "levelcontrol">>, <<768, "colorcontrol">> }

\* The fixed table of the registry: (cluster, command) identifiers and names.
CommandTable ==
    { <<6, 0, "off">>, <<6, 1, "on">>, <<6, 2, "toggle">>,
      <<8, 0, "move-to-level">>, <<8, 1, "move">>, <<8, 2, "step">>,
      <<8, 3, "stop">>, <<8, 4, "move-to-level-with-on-off">>,
      <<8, 5, "move-with-on-off">>, <<8, 6, "step-with-on-off">>,
      <<8, 7, "stop-with-on-off">>, <<8, 8, "move-to-closest-frequency">>,
      <<768, 0, "move-to-hue">>, <<768, 1, "move-hue">>,
      <<768, 2, "step-hue">>, <<768, 3, "move-to-saturation">>,
      <<768, 4, "move-saturation">>, <<768, 5, "step-saturation">>,
      <<768, 6, "move-to-hue-and-saturation">>, <<768, 7, "move-to-color">>,
      <<768, 8, "move-color">>, <<768, 9, "step-color">>,
      <<768, 10, "move-to-color-temperature">>,
      <<768, 64, "enhanced-move-to-hue">>, <<768, 65, "enhanced-move-hue">>,
      <<768, 66, "enhanced-step-hue">>,
      <<768, 67, "enhanced-move-to-hue-and-saturation">>,
      <<768, 68, "color-loop-set">>, <<768, 71, "stop-move-set">>,
      <<768, 75, "move-color-temperature">>,
      <<768, 76, "step-color-temperature">> }

\* C11: get_cluster_name and get_command_name return the name the fixed
\* table gives for the identifier or pair, and absent for every identifier or
\* pair the table does not hold.
C11_RegistryMatchesTable ==
    /\ (probe.kind = "registry" /\ probe.called = "get_cluster_name") =>
           /\ \A e \in ClusterTable :
                e[1] = probe.cluster_id => probe.result = <<e[2]>>
           /\ (\A e \in ClusterTable : e[1] # probe.cluster_id) =>
                probe.result = <<>>
    /\ (probe.kind = "registry" /\ probe.called = "get_command_name") =>
           /\ \A e \in CommandTable :
                (e[1] = probe.cluster_id /\ e[2] = probe.command_id) =>
                    probe.result = <<e[3]>>
           /\ (\A e \in CommandTable :
                 e[1] # probe.cluster_id \/ e[2] # probe.command_id) =>
                probe.result = <<>>

C11_Witness ==
    /\ probe.kind = "registry"
    /\ probe.called = "get_command_name"
    /\ probe.cluster_id = 768
    /\ probe.command_id = 76
    /\ probe.result = <<"step-color-temperature">>

\* The numbers of the occurrences of the pattern in a list of pieces, in
\* order.  open tells whether the current line has a tag that no occurrence
\* has used yet.
RECURSIVE OccurrenceNumbers(_, _)
OccurrenceNumbers(segs, open) ==
    IF segs = <<>> THEN <<>>
    ELSE LET seg == Head(segs)
             rest == Tail(segs)
         IN  CASE seg.kind = "occ" ->
                    <<seg.num>> \o OccurrenceNumbers(rest, FALSE)
               [] seg.kind = "tag" -> OccurrenceNumbers(rest, TRUE)
               [] seg.kind = "tail" ->
                    IF open THEN <<seg.num>> \o OccurrenceNumbers(rest, FALSE)
                    ELSE OccurrenceNumbers(rest, FALSE)
               [] seg.kind = "nl" -> OccurrenceNumbers(rest, FALSE)
               [] OTHER -> OccurrenceNumbers(rest, open)

\* C12: the scan of a tool output yields exactly one number per occurrence
\* of the pattern (tag, bracketed index, decimal number, opening
\* parenthesis), line by line and left to right, duplicates kept; text that
\* does not match contributes nothing.
C12_OneNumberPerOccurrence ==
    (probe.kind = "scan" /\ probe.called) =>
        probe.result = OccurrenceNumbers(probe.segments, FALSE)

C12_Witness ==
    /\ probe.kind = "scan"
    /\ probe.called
    /\ Len(probe.segments) = 3
    /\ probe.segments[1].kind = "occ"
    /\ probe.segments[2].kind = "noise"
    /\ probe.segments[3] = probe.segments[1]
    /\ probe.result = <<"6", "6">>

\* How a finished command request was classified, read from its response
\* and its invocation log.
Classification(r) ==
    CASE IsUnsupportedCluster(r) -> "UnsupportedCluster"
      [] IsUnsupportedCommand(r) -> "UnsupportedCommand"
      [] Len(invocations[r]) = 1 -> "pass"
      [] OTHER -> "none"

\* The classification of (cluster, command) against a capability map.
ClassOf(caps, cluster, command) ==
    IF cluster \notin DOMAIN caps THEN "UnsupportedCluster"
    ELSE IF ~InList(caps[cluster], command) THEN "UnsupportedCommand"
    ELSE "pass"

SameRequest(r, q) ==
    /\ payload[r].id = payload[q].id
    /\ payload[r].cluster = payload[q].cluster
    /\ payload[r].command = payload[q].command

Classified(r) == IsCommand(r) /\ locals[r].row = "Ok" /\ pc[r] = "done"

\* C13: validation is deterministic and free of side effects: the device a
\* request validated against is still the stored record, the classification
\* a request got is the one validation gives on the stored capability map
\* now, and two requests with the same device, cluster and command get the
\* same classification, whatever ran in between.
C13_ValidationDeterministic ==
    /\ \A r \in Reqs :
         (IsCommand(r) /\ locals[r].row = "Ok") =>
             /\ HasRow(payload[r].id)
             /\ locals[r].device = StoredRow(payload[r].id)
    /\ \A r \in Reqs :
         Classified(r) =>
             Classification(r) =
                 ClassOf(StoredRow(payload[r].id).capabilities,
                         payload[r].cluster, payload[r].command)
    /\ \A r, q \in Reqs :
         (Classified(r) /\ Classified(q) /\ SameRequest(r, q)) =>
             Classification(r) = Classification(q)

C13_Witness ==
    \E r, q \in Reqs :
        /\ r # q
        /\ Classified(r) /\ Classified(q) /\ SameRequest(r, q)
        /\ Classification(r) = "pass"
        /\ Classification(q) = "pass"
        /\ invocations[r][1].result # invocations[q][1].result

\* Largest node identifier of the records of a table, 0 for an empty table.
RECURSIVE MaxNodeId(_)
MaxNodeId(table) ==
    IF table = <<>> THEN 0
    ELSE LET m == MaxNodeId(Tail(table))
         IN  IF Head(table).node_id > m THEN Head(table).node_id ELSE m

\* C14: the node identifier a commission request allocates is the largest
\* node identifier of the existing records plus one (1 for an empty
\* directory), and so the record it adds has a node identifier greater than
\* that of every existing record.
C14_AllocatesMaxNodeIdPlusOne ==
    [][\A r \in Reqs :
         /\ (pc[r] = "idle" /\ pc'[r] = "pairing") =>
                locals'[r].node_id = MaxNodeId(devices) + 1
         /\ (pc[r] = "insert" /\ inserted'[r] # inserted[r]) =>
                inserted'[r][1].node_id > MaxNodeId(devices)]_vars

\* The rows the table held at start-up.
InitialTablePart ==
    SelectSeq(devices,
              LAMBDA row : \A r \in Reqs : ~InList(inserted[r], row))

\* C15: a device record, once in the directory, is never changed or
\* removed by any step of any request, and no step of a command request
\* writes to the directory.
C15_RecordsImmutable ==
    [][/\ Len(devices') >= Len(devices)
       /\ \A k \in 1..Len(devices) : devices'[k] = devices[k]
       /\ \A r \in Reqs :
            (payload'[r].kind = "command" /\ pc'[r] # pc[r]) =>
                devices' = devices]_vars

C15_Witness ==
    \E r, q \in Reqs :
        /\ r # q
        /\ inserted[r] # <<>>
        /\ inserted[q] # <<>>
        /\ devices = InitialTablePart \o inserted[r] \o inserted[q]

\* Position of a commission request in handle_device_commission.
StepRank ==
    [idle |-> 0, pairing |-> 1, server_list |-> 2, commands |-> 3,
     insert |-> 4, done |-> 5, panicked |-> 5]

\* The log of request r is a prefix of: pairing, server-list, one
\* accepted-command-list read per recognized cluster in order, all for node
\* identifier n; the position of r agrees with the length of the log; a row
\* is inserted at most once, after the whole log, with node identifier n.
LinearOrder(r) ==
    LET inv == invocations[r]
        n == locals[r].node_id
        sup == locals[r].supported_clusters
    IN  /\ pc[r] = "pairing" => inv = <<>>
        /\ pc[r] = "server_list" => Len(inv) = 1
        /\ pc[r] = "commands" => Len(inv) = 1 + locals[r].next
        /\ pc[r] = "insert" => Len(inv) = 2 + Len(sup)
        /\ pc[r] # "done" => inserted[r] = <<>>
        /\ Len(inv) <= 2 + Len(sup)
        /\ Len(inv) >= 1 =>
               /\ SubSeq(inv[1].args, 1, 2) = <<"pairing", "onnetwork">>
               /\ from_str_radix(inv[1].args[3]) = Some(n)
        /\ Len(inv) >= 2 =>
               /\ SubSeq(inv[2].args, 1, 3)
                      = <<"descriptor", "read", "server-list">>
               /\ from_str_radix(inv[2].args[4]) = Some(n)
        /\ \A k \in 3..Len(inv) :
               /\ inv[k].args[1] = sup[k - 2]
               /\ SubSeq(inv[k].args, 2, 3) = <<"read", "accepted-command-list">>
               /\ from_str_radix(inv[k].args[4]) = Some(n)
        /\ inserted[r] # <<>> =>
               /\ Len(inserted[r]) = 1
               /\ Len(inv) = 2 + Len(sup)
               /\ AllStarted(r)
               /\ inserted[r][1].node_id = n

\* A step of request r moves it forward (the loop over the clusters moves to
\* the next cluster), adds at most one invocation and keeps the node
\* identifier allocated at the start.
ForwardStep(r) ==
    /\ StepRank[pc'[r]] >= StepRank[pc[r]]
    /\ (pc'[r] = pc[r] /\ locals'[r] # locals[r]) =>
           /\ pc[r] = "commands"
           /\ locals'[r].next = locals[r].next + 1
    /\ Len(invocations'[r]) <= Len(invocations[r]) + 1
    /\ SubSeq(invocations'[r], 1, Len(invocations[r])) = invocations[r]
    /\ pc[r] # "idle" => locals'[r].node_id = locals[r].node_id

C18_OnlyRegistryNames ==
    \A k \in 1..Len(devices) :
        \A key \in DOMAIN devices[k].capabilities :
            \E e \in ClusterTable :
                /\ e[2] = key
                /\ \A j \in 1..Len(devices[k].capabilities[key]) :
                     \E c \in CommandTable :
                         /\ c[1] = e[1]
                         /\ c[3] = devices[k].capabilities[key][j]

C18_Witness ==
    \E r \in Reqs :
        /\ IsCommission(r)
        /\ Len(inserted[r]) = 1
        /\ InList(devices, inserted[r][1])
        /\ InList(ParsedClusterIds(r), "999")
        /\ "999" \notin DOMAIN inserted[r][1].capabilities

\* C19: whenever a commission request has returned success with id = k, the
\* lookup a command request performs for identifier k finds exactly the record
\* that commission request created (same name, node identifier k and
\* capability map), for any sequence or interleaving of commission requests.
C19_LookupFindsCommissioned ==
    \A r \in Reqs :
        (IsCommission(r) /\ Responded(r) /\ Status(r) = 200
             /\ Body(r).success) =>
            LET k == Unwrap(Body(r).id)
                found == FetchOne(devices, k)
            IN  /\ Len(inserted[r]) = 1
                /\ found.tag = "Ok"
                /\ found.device = inserted[r][1]
                /\ found.device.node_id = k

\* Pairing of request r succeeded and its server-list read ran and yielded
\* no recognized cluster ID.
NoRecognizedCluster(r) ==
    /\ IsCommission(r)
    /\ Len(invocations[r]) >= 2
    /\ invocations[r][1].result.started
    /\ invocations[r][1].result.code = 0
    /\ invocations[r][2].result.started
    /\ ExpectedClusterKeys(ParsedClusterIds(r)) = {}

\* C20: after a successful pairing, if the server-list read yields no
\* recognized cluster ID (empty output, only unrecognized IDs, or a run that
\* exited non-zero), no accepted-command-list invocation is issued and the
\* request, unless the INSERT statement itself fails, persists a record with
\* an empty capability map and reports success; every later command request
\* to that device is refused with UnsupportedCluster.
C20_NoRecognizedCluster ==
    \A r \in Reqs :
        NoRecognizedCluster(r) =>
            /\ Len(invocations[r]) = 2
            /\ pc[r] \in {"insert", "done"}
            /\ pc[r] = "done" =>
                   \/ /\ Status(r) = 200
                      /\ Body(r).success
                      /\ Len(inserted[r]) = 1
                      /\ DOMAIN inserted[r][1].capabilities = {}
                      /\ InList(devices, inserted[r][1])
                   \/ /\ Status(r) = 500
                      /\ StartsWith(Body(r).message,
                                    "Failed to insert device into database")
                      /\ inserted[r] = <<>>
            /\ \A q \in Reqs :
                   (/\ IsCommand(q)
                    /\ locals[q].row = "Ok"
                    /\ Len(inserted[r]) = 1
                    /\ locals[q].device = inserted[r][1]) =>
                       /\ invocations[q] = <<>>
                       /\ pc[q] \in {"dispatch", "done"}
                       /\ pc[q] = "done" => IsUnsupportedCluster(q)

C20_Witness ==
    \E r, q \in Reqs :
        /\ NoRecognizedCluster(r)
        /\ invocations[r][2].result.code # 0
        /\ Responded(r)
        /\ Status(r) = 200
        /\ Len(inserted[r]) = 1
        /\ IsCommand(q)
        /\ locals[q].row = "Ok"
        /\ locals[q].device = inserted[r][1]
        /\ IsUnsupportedCluster(q)

====
